---- MODULE Spec2Model ----
(***************************************************************************)
(* A model of the sokudo physics core: the World and its step()/state(),   *)
(* the Collider and RigidBody constructors, RigidBody::compute_vertices,   *)
(* InertiaTensor::new and ParticleCollisionConstraint; and of the systems  *)
(* of the playback player that replay a baked history.                     *)
(*                                                                         *)
(* f32 values are modelled by a small fixed-point float format: a finite   *)
(* value is a whole number of 1/Unit, and there are the two infinities and *)
(* NaN.  A finite result whose magnitude exceeds FMax overflows to an      *)
(* infinity, as an f32 result does.                                        *)
(*                                                                         *)
(* world.rs writes `collider.transform.translate` and collider.rs reads    *)
(* `position`; both name the one translation a Collider carries, which the *)
(* model keeps in the field `position`.                                    *)
(***************************************************************************)
EXTENDS Integers, Sequences, FiniteSets, TLC

VARIABLES
    parsed,      \* the ParsedWorld both worlds are built from
    worldA,      \* a World built from `parsed`
    worldB,      \* a second World built from the same `parsed`
    histA,       \* the state() snapshots of worldA, one before any step and one per step
    histB,       \* the state() snapshots of worldB
    now,         \* the wall clock of the process that runs the worlds
    constraint,  \* a ParticleCollisionConstraint
    bodies,      \* the colliders handed to inverse_masses
    masses,      \* <<what inverse_masses returned>>, <<>> before the call
    parsedRb,    \* a ParsedRigidBody
    rb,          \* <<the RigidBody built from it>>, <<>> before construction
    rb0,         \* rb as it was built, before any compute_vertices
    calls,       \* number of compute_vertices calls made on rb
    moments,     \* the principal moments handed to InertiaTensor::new
    tensor,      \* <<the InertiaTensor it returned>>, <<>> before the call
    history,     \* WorldStateHistory: the baked snapshots the player replays
    index,       \* WorldStateIndex.step
    playerState, \* State<PlayerState>
    nextState,   \* NextState<PlayerState>: <<the state requested>>, <<>> when none is
    playbackTime,\* PlaybackTime.time
    deltaTime,   \* DeltaTime.dt
    space,       \* whether Space was just pressed in the current frame
    entities,    \* ColliderEntities with each entity's Transform: collider id -> transform
    pc,          \* where the current frame is: "frame", "preupdate", "update", "failed"
    ran,         \* the PreUpdate systems that have run in the current frame
    read         \* <<the index update_colliders last read the history at>>, <<>> before

playerVars == <<history, index, playerState, nextState, playbackTime,
                deltaTime, space, entities, pc, ran, read>>

vars == <<parsed, worldA, worldB, histA, histB, now, constraint,
          bodies, masses, parsedRb, rb, rb0, calls, moments, tensor, playerVars>>

----------------------------------------------------------------------------
(* Bounds *)

Unit == 10
FMax == 50
MaxColliders == 2
MaxSteps == 2
MaxNow == 1
MaxCalls == 2
MaxBodies == 2
MaxRes == 2
MaxHistory == 2
MaxFrames == 4

----------------------------------------------------------------------------
(* f32 *)

Fin(n) == [k |-> "fin", v |-> n]
Inf == [k |-> "inf", v |-> 1]
NegInf == [k |-> "inf", v |-> -1]
NaN == [k |-> "nan", v |-> 0]

Zero == Fin(0)
One == Fin(Unit)

IsNaN(a) == a.k = "nan"
IsInf(a) == a.k = "inf"
FIsFinite(a) == a.k = "fin"

Sign(n) == IF n < 0 THEN -1 ELSE IF n > 0 THEN 1 ELSE 0
Abs(n) == IF n < 0 THEN -n ELSE n

\* integer quotient rounded toward zero
Quot(n, d) == Sign(n) * Sign(d) * (Abs(n) \div Abs(d))

\* a finite result, or the infinity it overflows to
Round(n) ==
    IF n > FMax THEN Inf ELSE IF n < -FMax THEN NegInf ELSE Fin(n)

FNeg(a) ==
    IF IsNaN(a) THEN NaN ELSE [k |-> a.k, v |-> -a.v]

FAdd(a, b) ==
    IF IsNaN(a) \/ IsNaN(b) THEN NaN
    ELSE IF IsInf(a) /\ IsInf(b) THEN (IF a.v = b.v THEN a ELSE NaN)
    ELSE IF IsInf(a) THEN a
    ELSE IF IsInf(b) THEN b
    ELSE Round(a.v + b.v)

FSub(a, b) == FAdd(a, FNeg(b))

FMul(a, b) ==
    IF IsNaN(a) \/ IsNaN(b) THEN NaN
    ELSE IF IsInf(a) \/ IsInf(b)
         THEN (IF Sign(a.v) * Sign(b.v) = 0 THEN NaN
               ELSE [k |-> "inf", v |-> Sign(a.v) * Sign(b.v)])
    ELSE Round(Quot(a.v * b.v, Unit))

\* f32::recip, 1.0 / a
FRecip(a) ==
    IF IsNaN(a) THEN NaN
    ELSE IF IsInf(a) THEN Zero
    ELSE IF a.v = 0 THEN Inf
    ELSE Round(Quot(Unit * Unit, a.v))

----------------------------------------------------------------------------
(* glam: Vec3, UVec3, Quat, Mat3 *)

Vec3ZERO == <<Zero, Zero, Zero>>
UVec3ZERO == <<0, 0, 0>>
UVec3ONE == <<1, 1, 1>>

\* Vec3::is_finite: every component is finite
Vec3IsFinite(v) == \A i \in 1..3 : FIsFinite(v[i])

\* Vec3::recip: component-wise
Vec3Recip(v) == [i \in 1..3 |-> FRecip(v[i])]

Cross(a, b) ==
    <<FSub(FMul(a[2], b[3]), FMul(a[3], b[2])),
      FSub(FMul(a[3], b[1]), FMul(a[1], b[3])),
      FSub(FMul(a[1], b[2]), FMul(a[2], b[1]))>>

Dot(a, b) ==
    FAdd(FAdd(FMul(a[1], b[1]), FMul(a[2], b[2])), FMul(a[3], b[3]))

\* a Mat3 is its three rows
Mat3ZERO == <<Vec3ZERO, Vec3ZERO, Vec3ZERO>>

Mat3FromDiagonal(d) ==
    [i \in 1..3 |-> [j \in 1..3 |-> IF i = j THEN d[i] ELSE Zero]]

Transpose(m) == [i \in 1..3 |-> [j \in 1..3 |-> m[j][i]]]

MatMul(a, b) ==
    [i \in 1..3 |-> [j \in 1..3 |->
        FAdd(FAdd(FMul(a[i][1], b[1][j]), FMul(a[i][2], b[2][j])),
             FMul(a[i][3], b[3][j]))]]

MatVec(m, v) == [i \in 1..3 |-> Dot(m[i], v)]

\* Mat3::from_quat of q = <<x, y, z, w>>
Mat3FromQuat(q) ==
    LET x2 == FAdd(q[1], q[1])
        y2 == FAdd(q[2], q[2])
        z2 == FAdd(q[3], q[3])
        xx == FMul(q[1], x2)
        xy == FMul(q[1], y2)
        xz == FMul(q[1], z2)
        yy == FMul(q[2], y2)
        yz == FMul(q[2], z2)
        zz == FMul(q[3], z2)
        wx == FMul(q[4], x2)
        wy == FMul(q[4], y2)
        wz == FMul(q[4], z2)
    IN  <<<<FSub(One, FAdd(yy, zz)), FSub(xy, wz), FAdd(xz, wy)>>,
          <<FAdd(xy, wz), FSub(One, FAdd(xx, zz)), FSub(yz, wx)>>,
          <<FSub(xz, wy), FAdd(yz, wx), FSub(One, FAdd(xx, yy))>>>>

QuatIDENTITY == <<Zero, Zero, Zero, One>>
\* half a turn about the z axis
QuatHalfTurnZ == <<Zero, Zero, One, Zero>>

----------------------------------------------------------------------------
(* InertiaTensor *)

\* InertiaTensor::INFINITY
InertiaTensorINFINITY == [inverse |-> Mat3ZERO]

\* InertiaTensor::from_inverse_tensor
FromInverseTensor(inverse_tensor) == [inverse |-> inverse_tensor]

\* InertiaTensorNew that zeroes each non-finite reciprocal on its own
InertiaTensorNewPerAxis(principal_moments) ==
    LET rcp == Vec3Recip(principal_moments)
    IN  FromInverseTensor(Mat3FromDiagonal(
            [i \in 1..3 |-> IF FIsFinite(rcp[i]) THEN rcp[i] ELSE Zero]))

\* InertiaTensor::new
InertiaTensorNew(principal_moments) ==
    LET rcp == Vec3Recip(principal_moments)
    IN  FromInverseTensor(Mat3FromDiagonal(
            IF Vec3IsFinite(rcp) THEN rcp ELSE Vec3ZERO))

\* InertiaTensor::rotate
InertiaTensorRotate(t, q) ==
    LET r == Mat3FromQuat(q)
    IN  FromInverseTensor(MatMul(MatMul(r, t.inverse), Transpose(r)))

\* InertiaTensor::inverse
InertiaTensorInverse(t) == t.inverse

----------------------------------------------------------------------------
(* Shape, RigidBody, Particle *)

\* Shape::vertices: the shape sampled on a grid of resolution[1] x resolution[2]
\* x resolution[3] points, in lexicographic order
ShapeVertices(shape, resolution) ==
    LET n == resolution[1] * resolution[2] * resolution[3]
    IN  [t \in 1..n |->
            <<Fin((t - 1) \div (resolution[2] * resolution[3])),
              Fin(((t - 1) \div resolution[3]) % resolution[2]),
              Fin((t - 1) % resolution[3])>>]

\* From<ParsedRigidBody> for RigidBody
RigidBodyFromParsed(value) ==
    [kind |-> "Rigid",
     shape |-> value.shape,
     mass |-> value.mass,
     vertex_resolution |->
         IF value.vertex_resolution = UVec3ZERO THEN UVec3ONE
         ELSE value.vertex_resolution,
     vertices |-> value.vertices,
     inertia_tensor |-> InertiaTensorINFINITY,
     previous_rotation |-> value.transform.rotate,
     angular_velocity |-> Vec3ZERO,
     previous_angular_velocity |-> Vec3ZERO,
     rotation |-> value.transform.rotate,
     scale |-> value.transform.scale]

\* RigidBody::compute_inertia_tensor, for a shape of the given moments
ComputeInertiaTensor(self, shape_moments) ==
    [self EXCEPT !.inertia_tensor = InertiaTensorNew(shape_moments)]

\* ComputeVertices that samples the shape on every call
ComputeVerticesAlways(self) ==
    [self EXCEPT !.vertices = ShapeVertices(self.shape, self.vertex_resolution)]

\* RigidBody::compute_vertices
ComputeVertices(self) ==
    IF self.vertices = <<>>
    THEN [self EXCEPT !.vertices = ShapeVertices(self.shape, self.vertex_resolution)]
    ELSE self

\* RigidBody::global_inverse_inertia
GlobalInverseInertia(self) ==
    InertiaTensorInverse(InertiaTensorRotate(self.inertia_tensor, self.rotation))

\* RigidBody::positional_inverse_mass
PositionalInverseMass(self, r, n) ==
    LET r_cross_n == Cross(r, n)
    IN  FAdd(FRecip(self.mass),
             Dot(r_cross_n, MatVec(GlobalInverseInertia(self), r_cross_n)))

\* From<ParsedParticle> for Particle
ParticleFromParsed(value) == [kind |-> "Particle", mass |-> value.mass]

\* Particle::inverse_mass
ParticleInverseMass(self) == FRecip(self.mass)

----------------------------------------------------------------------------
(* Collider *)

\* From<ParsedColliderBody> for ColliderBody
ColliderBodyFromParsed(value) ==
    IF value.kind = "Particle" THEN ParticleFromParsed(value)
    ELSE RigidBodyFromParsed(value)

\* ColliderFromParsed with position and velocity mixed up
ColliderFromParsedSwapped(value) ==
    [id |-> value.id,
     locked |-> value.locked,
     body |-> ColliderBodyFromParsed(value.body),
     position |-> value.velocity,
     previous_position |-> value.position,
     velocity |-> value.position]

\* From<ParsedCollider> for Collider
ColliderFromParsed(value) ==
    [id |-> value.id,
     locked |-> value.locked,
     body |-> ColliderBodyFromParsed(value.body),
     position |-> value.position,
     previous_position |-> value.position,
     velocity |-> value.velocity]

\* WriteTransform::from_translate
WriteTransformFromTranslate(translate) ==
    [translate |-> translate, rotate |-> QuatIDENTITY]

\* From<&Transform> for WriteTransform, of the transform of a rigid collider
WriteTransformFromRigid(position, body) ==
    [translate |-> position, rotate |-> body.rotation]

\* From<&Collider> for WriteCollider
WriteColliderFrom(value) ==
    [id |-> value.id,
     transform |->
         IF value.body.kind = "Particle"
         THEN WriteTransformFromTranslate(value.position)
         ELSE WriteTransformFromRigid(value.position, value.body)]

----------------------------------------------------------------------------
(* World *)

\* the literal 0.1 of World::step
StepDrop == Fin(Unit \div 10)

\* StepCollider with a drop that grows with the wall clock
StepColliderTimed(collider) ==
    [collider EXCEPT !.position[2] =
        FSub(collider.position[2], Fin((now + 1) * StepDrop.v))]

\* the body of the loop of World::step, for one collider
StepCollider(collider) ==
    [collider EXCEPT !.position[2] = FSub(collider.position[2], StepDrop)]

\* WorldStep that loses the last collider
WorldStepLosing(self) ==
    [self EXCEPT !.colliders =
        [i \in 1..(Len(self.colliders) - 1) |-> StepCollider(self.colliders[i])]]

\* World::step
WorldStep(self) ==
    [self EXCEPT !.colliders =
        [i \in 1..Len(self.colliders) |-> StepCollider(self.colliders[i])]]

\* World::state
WorldState(self) ==
    [colliders |->
        [i \in 1..Len(self.colliders) |-> WriteColliderFrom(self.colliders[i])]]

\* From<ParsedWorld> for World
WorldFromParsed(value) ==
    [steps |-> value.steps,
     colliders |->
        [i \in 1..Len(value.colliders) |-> ColliderFromParsed(value.colliders[i])]]

----------------------------------------------------------------------------
(* Constraint *)

\* ParticleCollisionConstraint::bodies
ConstraintBodies(self) == <<self.particle, self.rb>>

\* the colliders of a world that a constraint's ColliderIds index
Resolve(self, world) ==
    [i \in 1..2 |-> world.colliders[ConstraintBodies(self)[i] + 1]]

\* the constraint pairs a particle and a rigid body of the world
ConstraintResolves(self, world) ==
    /\ \A i \in 1..2 : ConstraintBodies(self)[i] + 1 \in 1..Len(world.colliders)
    /\ Resolve(self, world)[1].body.kind = "Particle"
    /\ Resolve(self, world)[2].body.kind = "Rigid"

\* ParticleCollisionConstraint::c
ConstraintC(self, bs) == self.contact.depth

\* ParticleCollisionConstraint::c_gradients
ConstraintCGradients(self, bs) ==
    LET n == self.contact.normal
    IN  <<[i \in 1..3 |-> FNeg(n[i])], n>>

\* InverseMasses with the particle's locked flag used for both bodies
InverseMassesOneFlag(self, bs) ==
    IF Len(bs) # 2 THEN <<>>
    ELSE IF bs[1].body.kind # "Particle" THEN <<>>
    ELSE IF bs[2].body.kind # "Rigid" THEN <<>>
    ELSE LET w1 == IF bs[1].locked THEN Zero
                   ELSE ParticleInverseMass(bs[1].body)
             w2 == IF bs[1].locked THEN Zero
                   ELSE PositionalInverseMass(bs[2].body, self.contact.anchor2,
                                              self.contact.normal)
         IN  <<w1, w2>>

\* InverseMasses with a zero entry per body on a mismatch
InverseMassesZeroFilled(self, bs) ==
    IF Len(bs) # 2 THEN <<>>
    ELSE IF bs[1].body.kind # "Particle" \/ bs[2].body.kind # "Rigid"
         THEN <<Zero, Zero>>
    ELSE LET w1 == IF bs[1].locked THEN Zero
                   ELSE ParticleInverseMass(bs[1].body)
             w2 == IF bs[2].locked THEN Zero
                   ELSE PositionalInverseMass(bs[2].body, self.contact.anchor2,
                                              self.contact.normal)
         IN  <<w1, w2>>

\* ParticleCollisionConstraint::inverse_masses
InverseMasses(self, bs) ==
    IF Len(bs) # 2 THEN <<>>
    ELSE IF bs[1].body.kind # "Particle" THEN <<>>
    ELSE IF bs[2].body.kind # "Rigid" THEN <<>>
    ELSE LET w1 == IF bs[1].locked THEN Zero
                   ELSE ParticleInverseMass(bs[1].body)
             w2 == IF bs[2].locked THEN Zero
                   ELSE PositionalInverseMass(bs[2].body, self.contact.anchor2,
                                              self.contact.normal)
         IN  <<w1, w2>>

\* ParticleCollisionConstraint::compliance
ConstraintCompliance(self) == self.compliance

----------------------------------------------------------------------------
(* Inputs *)

\* sequences over S of length at most n
RECURSIVE SeqsUpTo(_, _)
SeqsUpTo(S, n) ==
    IF n = 0 THEN {<<>>}
    ELSE LET shorter == SeqsUpTo(S, n - 1)
         IN  shorter \cup {Append(q, e) : q \in shorter, e \in S}

PositionA == <<Fin(Unit), Fin(2 * Unit), Fin(-Unit)>>
PositionB == <<Zero, Zero, Zero>>

ParsedParticleBody(mass) == [kind |-> "Particle", mass |-> mass]

ParsedRigidBody(mass, resolution, vertices, rotate) ==
    [kind |-> "RigidBody",
     shape |-> "Cuboid",
     mass |-> mass,
     vertex_resolution |-> resolution,
     vertices |-> vertices,
     transform |-> [rotate |-> rotate, scale |-> <<One, One, One>>]]

ParsedCollider(id, locked, body, position) ==
    [id |-> id, locked |-> locked, body |-> body,
     position |-> position, velocity |-> Vec3ZERO]

\* the parsed colliders a world is built from
ParsedColliders ==
    {ParsedCollider(5, locked, ParsedParticleBody(One), PositionA) :
        locked \in BOOLEAN}
    \cup {ParsedCollider(3, locked,
                         ParsedRigidBody(One, UVec3ONE, <<>>, QuatHalfTurnZ),
                         PositionB) : locked \in BOOLEAN}
    \cup {ParsedCollider(8, locked,
                         ParsedRigidBody(One, UVec3ONE, <<>>, QuatIDENTITY),
                         PositionA) : locked \in BOOLEAN}

ParsedWorlds ==
    {[steps |-> MaxSteps, colliders |-> cs] :
        cs \in SeqsUpTo(ParsedColliders, MaxColliders)}

Contact(depth, anchor2, normal) ==
    [normal |-> normal, depth |-> depth,
     anchor1 |-> Vec3ZERO, anchor2 |-> anchor2]

Constraints(depths, anchors, compliances) ==
    {[particle |-> 0, rb |-> 1,
      contact |-> Contact(d, a, <<Zero, One, Zero>>),
      compliance |-> c] : d \in depths, a \in anchors, c \in compliances}

\* the colliders inverse_masses may be handed: particles and rigid bodies,
\* locked or not, of several masses, a rigid body with its inertia tensor as
\* built or as computed
Masses == {Zero, One, Fin(2 * Unit)}

ConstraintColliders ==
    {ColliderFromParsed(ParsedCollider(5, locked, ParsedParticleBody(m), PositionA)) :
        locked \in BOOLEAN, m \in Masses}
    \cup
    {LET c == ColliderFromParsed(ParsedCollider(3, locked,
                  ParsedRigidBody(m, UVec3ONE, <<>>, QuatHalfTurnZ), PositionB))
     IN  IF computed
         THEN [c EXCEPT !.body =
                  ComputeInertiaTensor(c.body, <<One, Fin(2 * Unit), One>>)]
         ELSE c :
        locked \in BOOLEAN, m \in Masses, computed \in BOOLEAN}

\* the parsed rigid bodies a RigidBody is built from
ParsedRigidBodies ==
    {ParsedRigidBody(One, <<x, y, z>>, vs, q) :
        x \in 0..MaxRes, y \in 0..MaxRes, z \in 0..MaxRes,
        vs \in {<<>>, <<PositionA>>},
        q \in {QuatIDENTITY, QuatHalfTurnZ}}

\* the principal moments of one axis
MomentValues == {Zero, Fin(1), One, Fin(2 * Unit), Inf, NaN}

----------------------------------------------------------------------------
(* What the variables of the other specifications hold *)

IdleWorld ==
    /\ parsed = [steps |-> 0, colliders |-> <<>>]
    /\ worldA = WorldFromParsed(parsed)
    /\ worldB = WorldFromParsed(parsed)
    /\ histA = <<>>
    /\ histB = <<>>
    /\ now = 0

IdleContact ==
    constraint \in Constraints({One}, {Vec3ZERO}, {Zero})

IdleConstraint ==
    /\ bodies = <<>>
    /\ masses = <<>>

IdleRigid ==
    /\ parsedRb = ParsedRigidBody(One, UVec3ONE, <<>>, QuatIDENTITY)
    /\ rb = <<>>
    /\ rb0 = <<>>
    /\ calls = 0

IdleInertia ==
    /\ moments = Vec3ZERO
    /\ tensor = <<>>

IdlePlayer ==
    /\ history = <<>>
    /\ index = 0
    /\ playerState = "Paused"
    /\ nextState = <<>>
    /\ playbackTime = Zero
    /\ deltaTime = Zero
    /\ space = FALSE
    /\ entities = <<>>
    /\ pc = "frame"
    /\ ran = {}
    /\ read = <<>>

----------------------------------------------------------------------------
(* Spec: two worlds built from one parsed input and stepped *)

Init ==
    /\ parsed \in ParsedWorlds
    /\ worldA = WorldFromParsed(parsed)
    /\ worldB = WorldFromParsed(parsed)
    /\ histA = <<WorldState(worldA)>>
    /\ histB = <<WorldState(worldB)>>
    /\ now = 0
    /\ constraint \in Constraints({Fin(-Unit), Zero, Fin(2 * Unit)},
                                  {Vec3ZERO}, {Zero, One})
    /\ IdleConstraint /\ IdleRigid /\ IdleInertia
    /\ IdlePlayer

\* one iteration of the run loop on worldA: step(), then state() is recorded
StepA ==
    /\ Len(histA) <= MaxSteps
    /\ worldA' = WorldStep(worldA)
    /\ histA' = Append(histA, WorldState(worldA'))
    /\ UNCHANGED <<playerVars, parsed, worldB, histB, now, constraint,
                   bodies, masses, parsedRb, rb, rb0, calls, moments, tensor>>

\* one iteration of the run loop on worldB
StepB ==
    /\ Len(histB) <= MaxSteps
    /\ worldB' = WorldStep(worldB)
    /\ histB' = Append(histB, WorldState(worldB'))
    /\ UNCHANGED <<playerVars, parsed, worldA, histA, now, constraint,
                   bodies, masses, parsedRb, rb, rb0, calls, moments, tensor>>

\* time passes
Tick ==
    /\ now < MaxNow
    /\ now' = now + 1
    /\ UNCHANGED <<playerVars, parsed, worldA, worldB, histA, histB, constraint,
                   bodies, masses, parsedRb, rb, rb0, calls, moments, tensor>>

Next == StepA \/ StepB \/ Tick

Spec == Init /\ [][Next]_vars

----------------------------------------------------------------------------
(* Claims about World *)

FAbs(a) == IF IsNaN(a) THEN NaN ELSE [k |-> a.k, v |-> Abs(a.v)]

\* a < b, as f32 compares: false when either is NaN
FLt(a, b) ==
    /\ ~IsNaN(a) /\ ~IsNaN(b)
    /\ \/ FIsFinite(a) /\ FIsFinite(b) /\ a.v < b.v
       \/ IsInf(a) /\ a.v < 0 /\ ~(IsInf(b) /\ b.v < 0)
       \/ IsInf(b) /\ b.v > 0 /\ ~(IsInf(a) /\ a.v > 0)

Min(a, b) == IF a < b THEN a ELSE b

\* C1: a locked collider is never moved by step(): in every snapshot its
\* output translation is the one it had before the first step.
C1_LockedNeverMoves ==
    \A i \in 1..Len(worldA.colliders) :
        worldA.colliders[i].locked =>
            WorldState(worldA).colliders[i].transform.translate
                = histA[1].colliders[i].transform.translate

\* C3: with compliance 0 and a contact of nonzero depth, every step() strictly
\* decreases the absolute value of what c returns on the same contact.
C3_ContractionOnStep ==
    [][(/\ histA' # histA
        /\ ConstraintResolves(constraint, worldA)
        /\ ConstraintCompliance(constraint) = Zero
        /\ ConstraintC(constraint, Resolve(constraint, worldA)) # Zero)
       => FLt(FAbs(ConstraintC(constraint', Resolve(constraint', worldA'))),
              FAbs(ConstraintC(constraint, Resolve(constraint, worldA))))]_vars

C5_SnapshotShape ==
    /\ Len(worldA.colliders) = Len(parsed.colliders)
    /\ \A j \in 1..Len(worldA.colliders) :
           worldA.colliders[j].id = parsed.colliders[j].id
    /\ \A i \in 1..Len(histA) :
        /\ Len(histA[i].colliders) = Len(parsed.colliders)
        /\ \A j \in 1..Len(parsed.colliders) :
               histA[i].colliders[j].id = parsed.colliders[j].id

\* C5 witness: a world of two colliders with different ids, stepped twice.
C5_Witness ==
    /\ Len(parsed.colliders) = 2
    /\ parsed.colliders[1].id # parsed.colliders[2].id
    /\ Len(histA) > 2

\* C5 witness of the empty world: stepped, its snapshots are empty.
C5_WitnessEmpty ==
    /\ Len(parsed.colliders) = 0
    /\ Len(histA) > 1
    /\ histA[Len(histA)].colliders = <<>>

----------------------------------------------------------------------------
(* SpecConstraint: inverse_masses is called on a constraint and some colliders *)

InitConstraint ==
    /\ constraint \in Constraints({One}, {Vec3ZERO, <<One, Zero, Zero>>}, {Zero})
    /\ bodies \in SeqsUpTo(ConstraintColliders, MaxBodies)
    /\ masses = <<>>
    /\ IdleWorld /\ IdleRigid /\ IdleInertia
    /\ IdlePlayer

\* the call constraint.inverse_masses(bodies)
CallInverseMasses ==
    /\ masses = <<>>
    /\ masses' = <<InverseMasses(constraint, bodies)>>
    /\ UNCHANGED <<playerVars, parsed, worldA, worldB, histA, histB, now, constraint,
                   bodies, parsedRb, rb, rb0, calls, moments, tensor>>

NextConstraint == CallInverseMasses

SpecConstraint == InitConstraint /\ [][NextConstraint]_vars

\* inverse_masses was called with a particle and a rigid body, in that order
CalledOnMatchingPair ==
    /\ masses # <<>>
    /\ Len(bodies) = 2
    /\ bodies[1].body.kind = "Particle"
    /\ bodies[2].body.kind = "Rigid"

\* a collider with its locked flag flipped
Flip(collider) == [collider EXCEPT !.locked = ~collider.locked]

\* C2: called on a (particle, rigid body) pair, inverse_masses returns 0 in the
\* place of every locked collider; the entry of an unlocked collider is its own
\* inverse mass (the generalized one at anchor2 along the normal for the rigid
\* body), and is the same with the other collider's locked flag flipped.
C2_LockedIsZero ==
    CalledOnMatchingPair =>
        LET out == masses[1]
            own1 == ParticleInverseMass(bodies[1].body)
            own2 == PositionalInverseMass(bodies[2].body,
                        constraint.contact.anchor2, constraint.contact.normal)
        IN  /\ Len(out) = 2
            /\ bodies[1].locked => out[1] = Zero
            /\ bodies[2].locked => out[2] = Zero
            /\ ~bodies[1].locked =>
                   /\ out[1] = own1
                   /\ InverseMasses(constraint, <<bodies[1], Flip(bodies[2])>>)[1] = own1
            /\ ~bodies[2].locked =>
                   /\ out[2] = own2
                   /\ InverseMasses(constraint, <<Flip(bodies[1]), bodies[2]>>)[2] = own2

\* C2 witness: a locked particle of nonzero finite inverse mass against an
\* unlocked rigid body whose generalized inverse mass has an angular part.
C2_Witness ==
    /\ CalledOnMatchingPair
    /\ bodies[1].locked /\ ~bodies[2].locked
    /\ ParticleInverseMass(bodies[1].body) = One
    /\ masses[1][1] = Zero
    /\ FLt(FRecip(bodies[2].body.mass), masses[1][2])

\* C2 witness of the other side: a locked rigid body of mass zero.
C2_WitnessLockedRigid ==
    /\ CalledOnMatchingPair
    /\ bodies[2].locked /\ ~bodies[1].locked
    /\ bodies[2].body.mass = Zero
    /\ masses[1] = <<FRecip(bodies[1].body.mass), Zero>>

\* inverse_masses was called with two colliders whose variants do not match
CalledOnMismatch ==
    /\ masses # <<>>
    /\ Len(bodies) = 2
    /\ bodies[1].body.kind # "Particle" \/ bodies[2].body.kind # "Rigid"

\* C7 as claimed: inverse_masses returns one entry per body of bodies(), and on
\* a variant mismatch the mismatched body's entry is 0.
C7_OnePerBody ==
    (masses # <<>> /\ Len(bodies) = 2) =>
        /\ Len(masses[1]) = Len(ConstraintBodies(constraint))
        /\ bodies[1].body.kind # "Particle" => masses[1][1] = Zero
        /\ bodies[2].body.kind # "Rigid" => masses[1][2] = Zero

\* C7 amended: inverse_masses returns one entry per body only for a particle
\* followed by a rigid body; on a variant mismatch, and for any number of
\* colliders other than two, it returns the empty vector.
C7_EmptyOnMismatch ==
    masses # <<>> =>
        IF CalledOnMatchingPair
        THEN Len(masses[1]) = Len(ConstraintBodies(constraint))
        ELSE masses[1] = <<>>

\* C7 witness: a call on two colliders of mismatched variants, both unlocked.
C7_Witness ==
    /\ CalledOnMismatch
    /\ ~bodies[1].locked /\ ~bodies[2].locked
    /\ masses[1] = <<>>

----------------------------------------------------------------------------
(* SpecRigid: a RigidBody is built and compute_vertices is called on it *)

InitRigid ==
    /\ parsedRb \in ParsedRigidBodies
    /\ rb = <<>>
    /\ rb0 = <<>>
    /\ calls = 0
    /\ IdleWorld /\ IdleContact /\ IdleConstraint /\ IdleInertia
    /\ IdlePlayer

\* RigidBody::from(parsedRb)
Construct ==
    /\ rb = <<>>
    /\ rb' = <<RigidBodyFromParsed(parsedRb)>>
    /\ rb0' = rb'
    /\ UNCHANGED <<playerVars, parsed, worldA, worldB, histA, histB, now, constraint,
                   bodies, masses, parsedRb, calls, moments, tensor>>

\* rb.compute_vertices()
CallComputeVertices ==
    /\ rb # <<>>
    /\ calls < MaxCalls
    /\ rb' = <<ComputeVertices(rb[1])>>
    /\ calls' = calls + 1
    /\ UNCHANGED <<playerVars, parsed, worldA, worldB, histA, histB, now, constraint,
                   bodies, masses, parsedRb, rb0, moments, tensor>>

NextRigid == Construct \/ CallComputeVertices

SpecRigid == InitRigid /\ [][NextRigid]_vars

\* C8: no component of the vertex_resolution of a constructed RigidBody is zero.
C8_ResolutionNeverZero ==
    rb # <<>> => \A i \in 1..3 : rb[1].vertex_resolution[i] # 0

\* C9: after any number of compute_vertices calls, vertices that were not empty
\* at construction are unchanged, vertices that were empty are the shape's
\* sampling at vertex_resolution, and every other field is as constructed; so
\* a second call leaves what the first produced.
C9_ComputeVerticesIdempotent ==
    calls >= 1 =>
        /\ rb0[1].vertices # <<>> => rb[1] = rb0[1]
        /\ rb0[1].vertices = <<>> =>
               rb[1].vertices =
                   ShapeVertices(rb0[1].shape, rb0[1].vertex_resolution)
        /\ [rb[1] EXCEPT !.vertices = rb0[1].vertices] = rb0[1]
        /\ ComputeVertices(rb[1]) = rb[1]

\* C9 witness: two calls on a body whose precomputed vertices differ from the
\* sampling of its shape.
C9_Witness ==
    /\ calls = 2
    /\ rb0[1].vertices # <<>>
    /\ rb0[1].vertices # ShapeVertices(rb0[1].shape, rb0[1].vertex_resolution)
    /\ rb[1].vertices = rb0[1].vertices

\* C9 witness of the other case: two calls on a body built without vertices,
\* which now holds a sampling of more than one vertex.
C9_WitnessSampled ==
    /\ calls = 2
    /\ rb0[1].vertices = <<>>
    /\ Len(rb[1].vertices) > 1

----------------------------------------------------------------------------
(* SpecInertia: InertiaTensor::new is called on some principal moments *)

InitInertia ==
    /\ moments \in {<<x, y, z>> : x \in MomentValues, y \in MomentValues,
                                  z \in MomentValues}
    /\ tensor = <<>>
    /\ IdleWorld /\ IdleContact /\ IdleConstraint /\ IdleRigid
    /\ IdlePlayer

\* InertiaTensor::new(moments)
CallNew ==
    /\ tensor = <<>>
    /\ tensor' = <<InertiaTensorNew(moments)>>
    /\ UNCHANGED <<playerVars, parsed, worldA, worldB, histA, histB, now, constraint,
                   bodies, masses, parsedRb, rb, rb0, calls, moments>>

NextInertia == CallNew

SpecInertia == InitInertia /\ [][NextInertia]_vars

\* every entry of the inverse tensor is finite, and those off the diagonal are 0
FiniteDiagonal(t) ==
    \A i \in 1..3 : \A j \in 1..3 :
        /\ FIsFinite(t.inverse[i][j])
        /\ i # j => t.inverse[i][j] = Zero

\* C10 as claimed: axis by axis, a moment whose reciprocal is not finite gets
\* the inverse entry 0 and a moment whose reciprocal is finite gets that
\* reciprocal; no entry is infinite or NaN.
C10_PerAxis ==
    tensor # <<>> =>
        /\ FiniteDiagonal(tensor[1])
        /\ \A i \in 1..3 :
               tensor[1].inverse[i][i] =
                   IF FIsFinite(FRecip(moments[i])) THEN FRecip(moments[i])
                   ELSE Zero

\* C10 amended: when the reciprocals of all three moments are finite, each
\* axis gets the reciprocal of its moment; when the reciprocal of any one
\* moment is not finite, the whole inverse tensor is zero; no entry is
\* infinite or NaN.
C10_AllOrNothing ==
    tensor # <<>> =>
        /\ FiniteDiagonal(tensor[1])
        /\ IF \A i \in 1..3 : FIsFinite(FRecip(moments[i]))
           THEN \A i \in 1..3 : tensor[1].inverse[i][i] = FRecip(moments[i])
           ELSE tensor[1] = InertiaTensorINFINITY

\* C10 witness: one zero moment beside two moments of finite nonzero
\* reciprocal; the tensor returned is all zero.
C10_Witness ==
    /\ tensor # <<>>
    /\ moments[1] = Zero
    /\ \A i \in 2..3 : FIsFinite(FRecip(moments[i])) /\ FRecip(moments[i]) # Zero
    /\ tensor[1] = InertiaTensorINFINITY

\* C10 witness of the regular case: three different finite reciprocals.
C10_WitnessRegular ==
    /\ tensor # <<>>
    /\ moments = <<One, Fin(2 * Unit), Inf>>
    /\ tensor[1].inverse[2][2] = Fin(Unit \div 2)

----------------------------------------------------------------------------
(* SpecPlayer: the playback of a baked history, frame by frame *)

otherVars == <<parsed, worldA, worldB, histA, histB, constraint,
               bodies, masses, parsedRb, rb, rb0, calls, moments, tensor>>

\* a <= b, as f32 compares: false when either is NaN
FLe(a, b) == FLt(a, b) \/ (~IsNaN(a) /\ ~IsNaN(b) /\ a = b)

\* the history baked from a world: the snapshot after each of n steps
RECURSIVE Bake(_, _)
Bake(world, n) ==
    IF n = 0 THEN <<>>
    ELSE <<WorldState(WorldStep(world))>> \o Bake(WorldStep(world), n - 1)

\* the world file the player is started on
PlayerWorld ==
    [steps |-> MaxHistory,
     colliders |-> <<ParsedCollider(5, FALSE, ParsedParticleBody(One), PositionA)>>]

\* setup_initial_state: one entity per collider of the world, at its transform
SetupInitialState(world) ==
    [i \in 1..Len(world.colliders) |->
        [id |-> world.colliders[i].id,
         transform |-> [translate |-> world.colliders[i].position,
                        rotate |-> QuatIDENTITY]]]

\* the loop of update_colliders: every entity whose id a record of the
\* snapshot carries takes that record's translation and rotation
ApplyWorldState(ents, world_state) ==
    [e \in 1..Len(ents) |->
        LET hits == {j \in 1..Len(world_state.colliders) :
                        world_state.colliders[j].id = ents[e].id}
        IN  IF hits = {} THEN ents[e]
            ELSE LET last == CHOOSE j \in hits : \A k \in hits : k <= j
                 IN  [ents[e] EXCEPT !.transform =
                        [translate |-> world_state.colliders[last].transform.translate,
                         rotate |-> world_state.colliders[last].transform.rotate]]]

\* Time::elapsed_seconds
Elapsed == Round(now * Unit)

InitPlayer ==
    /\ history \in {Bake(WorldFromParsed(PlayerWorld), n) : n \in 0..MaxHistory}
    /\ entities \in {SetupInitialState(PlayerWorld),
                     SetupInitialState([steps |-> 0, colliders |-> <<>>])}
    /\ deltaTime \in {Zero, Fin(Unit \div 2), One}
    /\ index = 0
    /\ playerState = "Paused"
    /\ nextState = <<>>
    /\ playbackTime = Zero
    /\ space = FALSE
    /\ pc = "frame"
    /\ ran = {}
    /\ read = <<>>
    /\ IdleWorld /\ IdleContact /\ IdleConstraint /\ IdleRigid /\ IdleInertia

\* a frame begins: time has passed and Space was pressed or not
BeginFrame ==
    /\ pc = "frame"
    /\ now < MaxFrames
    /\ now' = now + 1
    /\ space' \in BOOLEAN
    /\ ran' = {}
    /\ pc' = "preupdate"
    /\ UNCHANGED <<otherVars, history, index, playerState, nextState,
                   playbackTime, deltaTime, entities, read>>

\* set_player_state_playing, run in PreUpdate when the state is Paused
SetPlayerStatePlaying ==
    /\ pc = "preupdate"
    /\ playerState = "Paused"
    /\ "set_player_state_playing" \notin ran
    /\ ran' = ran \cup {"set_player_state_playing"}
    /\ IF space
       THEN /\ nextState' = <<"Playing">>
            /\ playbackTime' = Elapsed
       ELSE UNCHANGED <<nextState, playbackTime>>
    /\ UNCHANGED <<otherVars, now, history, index, playerState, deltaTime,
                   space, entities, pc, read>>

\* set_player_state_paused, run in PreUpdate when the state is Playing
SetPlayerStatePaused ==
    /\ pc = "preupdate"
    /\ playerState = "Playing"
    /\ "set_player_state_paused" \notin ran
    /\ ran' = ran \cup {"set_player_state_paused"}
    /\ IF space
       THEN nextState' = <<"Paused">>
       ELSE UNCHANGED nextState
    /\ UNCHANGED <<otherVars, now, history, index, playerState, playbackTime,
                   deltaTime, space, entities, pc, read>>

\* update_world_state, run in PreUpdate when the state is Playing, in either
\* order with set_player_state_paused
UpdateWorldState ==
    /\ pc = "preupdate"
    /\ playerState = "Playing"
    /\ "update_world_state" \notin ran
    /\ ran' = ran \cup {"update_world_state"}
    /\ IF FLe(FSub(Elapsed, playbackTime), deltaTime)
       THEN UNCHANGED <<playbackTime, index, nextState>>
       ELSE /\ playbackTime' = FAdd(playbackTime, deltaTime)
            /\ IF Len(history) <= index + 1
               THEN /\ nextState' = <<"Paused">>
                    /\ index' = 0
               ELSE /\ index' = index + 1
                    /\ UNCHANGED nextState
    /\ UNCHANGED <<otherVars, now, history, playerState, deltaTime, space,
                   entities, pc, read>>

\* the StateTransition schedule, between PreUpdate and Update: the requested
\* state becomes the state
StateTransition ==
    /\ pc = "preupdate"
    /\ IF playerState = "Paused"
       THEN "set_player_state_playing" \in ran
       ELSE {"set_player_state_paused", "update_world_state"} \subseteq ran
    /\ playerState' = IF nextState # <<>> THEN nextState[1] ELSE playerState
    /\ nextState' = <<>>
    /\ pc' = "update"
    /\ UNCHANGED <<otherVars, now, history, index, playbackTime, deltaTime,
                   space, entities, ran, read>>

\* update_colliders, run in Update when the state is Playing and an entity
\* with the Collider component exists; the frame ends, or the player stops on
\* a read past the end of the history
UpdateColliders ==
    /\ pc = "update"
    /\ playerState = "Playing"
    /\ entities # <<>>
    /\ read' = <<index>>
    /\ IF index < Len(history)
       THEN /\ entities' = ApplyWorldState(entities, history[index + 1])
            /\ pc' = "frame"
       ELSE /\ pc' = "failed"
            /\ UNCHANGED entities
    /\ UNCHANGED <<otherVars, now, history, index, playerState, nextState,
                   playbackTime, deltaTime, space, ran>>

\* Update with the run conditions of update_colliders false: the frame ends
SkipUpdateColliders ==
    /\ pc = "update"
    /\ ~(playerState = "Playing" /\ entities # <<>>)
    /\ pc' = "frame"
    /\ UNCHANGED <<otherVars, now, history, index, playerState, nextState,
                   playbackTime, deltaTime, space, entities, ran, read>>

NextPlayer ==
    \/ BeginFrame
    \/ SetPlayerStatePlaying
    \/ SetPlayerStatePaused
    \/ UpdateWorldState
    \/ StateTransition
    \/ UpdateColliders
    \/ SkipUpdateColliders

SpecPlayer == InitPlayer /\ [][NextPlayer]_vars

\* C11: whenever update_colliders reads the history at index.step, the index
\* is less than the length of the history, for every history length.
C11_IndexInRange ==
    read # <<>> => read[1] < Len(history)

\* the second half of C11: a run of update_world_state that advances the index
\* to or past the end of the history leaves index.step at 0 and Paused
\* requested.
C11_WrapResets ==
    [][(/\ "update_world_state" \in ran' /\ "update_world_state" \notin ran
        /\ ~FLe(FSub(Elapsed, playbackTime), deltaTime)
        /\ Len(history) <= index + 1)
       => (index' = 0 /\ nextState' = <<"Paused">>)]_vars

\* index safety for the histories that hold a snapshot
C11_IndexInRangeNonEmpty ==
    (read # <<>> /\ history # <<>>) => read[1] < Len(history)

\* a read of the last snapshot of a history of more than one
C11_ReadsLast ==
    /\ read # <<>>
    /\ Len(history) > 1
    /\ read[1] = Len(history) - 1

\* the index wrapped: playback reached the end and was paused at step 0
C11_Wrapped ==
    /\ read # <<>>
    /\ read[1] > 0
    /\ index = 0
    /\ playerState = "Paused"

====
